---- MODULE Spec2Model ----
(***************************************************************************)
(* Hybrid memory retrieval and ranking engine of life-os                   *)
(* (app/services/memory_manager.py, with the collaborators                 *)
(* app/models/vector_db.py and app/models/knowledge_graph.py).             *)
(*                                                                         *)
(* Units.  Time is counted in ticks of 30 minutes.  Certainties are in     *)
(* 1e-4, temporal factors in 1e-6 and scores in 1e-8, so that every        *)
(* product of the code's weights is an exact integer; only the power       *)
(* base_decay ** time_diff is rounded (to 1e-6, downwards).                *)
(***************************************************************************)
EXTENDS Integers, Sequences, FiniteSets, TLC

VARIABLES
    now,    \* the instant, in ticks (datetime.utcnow())
    store,  \* the memories stored, in the order of their storing
    cache,  \* self.cache: entries [key, value], least recently used first
    last,   \* the last call of the engine: its arguments and what it returned
    used,   \* history: the keys of the cache in the order of their last use
    session, \* the session store: per user, the list under f"session:{user_id}"
    fpc,    \* where the application of a function alone stands
    fin,    \* its input
    fout    \* its output

vars == <<now, store, cache, last, used, session, fpc, fin, fout>>
engineVars == <<now, store, cache, last, used, session>>
funcVars == <<fpc, fin, fout>>

(***************************************************************************)
(* Time                                                                    *)
(***************************************************************************)
HOUR == 2
DAY == 48
WEEK == 7 * DAY

\* A timestamp as the index returns it: the instant and the form of the
\* ISO-8601 text.  store_memory writes datetime.utcnow().isoformat(): "naive".
Stamp(t) == [at |-> t, form |-> "naive"]

\* The other forms a timestamp can have: "utc" (a trailing Z), "offset" (an
\* explicit +hh:mm), "malformed" (no ISO-8601 text) and "missing" (no
\* timestamp, or an empty one).
StampAs(t, form) == [at |-> t, form |-> form]

\* datetime.fromisoformat(...) followed by current_time - memory_time succeeds
\* for the naive form only (current_time is a naive utcnow()).
Parseable(ts) == ts.form = "naive"

(***************************************************************************)
(* Fixed-point arithmetic                                                  *)
(***************************************************************************)
Micro == 1000 * 1000

\* floor(a * b / 1e6) without leaving 32 bits (a <= 2e6, b <= 1e6)
MulFix(a, b) == ((a \div 1000) * b) \div 1000 + ((a % 1000) * b) \div Micro

Min(a, b) == IF a <= b THEN a ELSE b

\* base_decay per day, in percent: 0.9, or 0.95 in long-context mode
BaseDecayPct(use_long_context) == IF use_long_context THEN 95 ELSE 90

\* base_decay ** (1/48), in 1e-6: the decay over one tick
TickDecayNormal == 997807
TickDecayLong == 998932
TickDecay(use_long_context) ==
    IF use_long_context THEN TickDecayLong ELSE TickDecayNormal

\* floor-rounded x ** n in 1e-6, by repeated squaring
RECURSIVE PowFix(_, _)
PowFix(x, n) ==
    IF n = 0 THEN Micro
    ELSE LET h == PowFix(x, n \div 2)
             sq == MulFix(h, h)
         IN IF n % 2 = 1 THEN MulFix(sq, x) ELSE sq

\* base_decay ** time_diff for time_diff = age / 48 days, in 1e-6
DecayPow(age, use_long_context) ==
    MulFix(PowFix(BaseDecayPct(use_long_context) * 10000, age \div DAY),
           PowFix(TickDecay(use_long_context), age % DAY))

\* recent_boost = 1.5, or 1.3 in long-context mode (in percent)
RecentBoostPct(use_long_context) == IF use_long_context THEN 130 ELSE 150

\* tiers whose bounds belong to the tier below them
TierMultiplierInclusive(age, use_long_context) ==
    IF age <= HOUR THEN RecentBoostPct(use_long_context)
    ELSE IF age <= DAY THEN (RecentBoostPct(use_long_context) * 8) \div 10
    ELSE IF age <= WEEK THEN 110
    ELSE 100

\* The recency tier of an age: the multiplier applied to the temporal factor,
\* in percent.
TierMultiplierPct(age, use_long_context) ==
    IF age < HOUR THEN RecentBoostPct(use_long_context)
    ELSE IF age < DAY THEN (RecentBoostPct(use_long_context) * 8) \div 10
    ELSE IF age < WEEK THEN 110
    ELSE 100

\* temporal_factor of a memory of the given age, in 1e-6
TemporalFactor(age, use_long_context) ==
    (DecayPow(age, use_long_context) * TierMultiplierPct(age, use_long_context))
        \div 100

\* context_weight, in percent
ContextWeightPct(use_long_context) == IF use_long_context THEN 65 ELSE 70

\* memory['score'] = original_score * context_weight
\*                 + temporal_factor * temporal_influence     (in 1e-8)
TemporalScore(score, age, use_long_context) ==
    (score \div 100) * ContextWeightPct(use_long_context)
    + TemporalFactor(age, use_long_context)
      * (100 - ContextWeightPct(use_long_context))

NoFactor == 0 - 1

\* a loop body that scores every memory, whatever its timestamp is
ScoreOneWhatever(m, t, use_long_context) ==
    [m EXCEPT !.score = TemporalScore(m.score, t - m.timestamp.at, use_long_context),
              !.temporal_factor = TemporalFactor(t - m.timestamp.at, use_long_context)]

\* The body of the loop of _apply_temporal_scoring for one memory at time t.
ScoreOne(m, t, use_long_context) ==
    IF Parseable(m.timestamp)
    THEN [m EXCEPT !.score = TemporalScore(m.score, t - m.timestamp.at,
                                           use_long_context),
                   !.temporal_factor = TemporalFactor(t - m.timestamp.at,
                                                      use_long_context)]
    ELSE m

\* list.sort(key=score, reverse=True): stable, descending
RECURSIVE InsertByScore(_, _)
InsertByScore(s, m) ==
    IF s = <<>> THEN <<m>>
    ELSE IF Head(s).score >= m.score
         THEN <<Head(s)>> \o InsertByScore(Tail(s), m)
         ELSE <<m>> \o s

\* a sort that puts the lowest score first
RECURSIVE InsertAscending(_, _)
InsertAscending(s, m) ==
    IF s = <<>> THEN <<m>>
    ELSE IF Head(s).score <= m.score
         THEN <<Head(s)>> \o InsertAscending(Tail(s), m)
         ELSE <<m>> \o s

RECURSIVE SortAscending(_)
SortAscending(s) ==
    IF s = <<>> THEN <<>>
    ELSE InsertAscending(SortAscending(SubSeq(s, 1, Len(s) - 1)), s[Len(s)])

RECURSIVE SortByScore(_)
SortByScore(s) ==
    IF s = <<>> THEN <<>>
    ELSE LET n == Len(s)
         IN InsertByScore(SortByScore(SubSeq(s, 1, n - 1)), s[n])

\* the scoring loop without the sort that follows it
ApplyTemporalScoringUnsorted(memories, t, use_long_context) ==
    [i \in 1..Len(memories) |-> ScoreOne(memories[i], t, use_long_context)]

\* the loop over the memories, then memories.sort(key=score, reverse=True)
ApplyTemporalScoring(memories, t, use_long_context) ==
    SortByScore([i \in 1..Len(memories) |->
                    ScoreOne(memories[i], t, use_long_context)])

(***************************************************************************)
(* Text: words, lower-casing, substrings                                   *)
(***************************************************************************)
\* str.lower() on the words the model uses
Lower(w) ==
    CASE w = "Alice" -> "alice"
      [] w = "Bob" -> "bob"
      [] w = "Quick" -> "quick"
      [] OTHER -> w

\* len(word) for the lower-case words the model uses
WordLen(w) ==
    CASE w \in {"the", "bob", "art", "fox"} -> 3
      [] w \in {"with"} -> 4
      [] w \in {"alice", "lunch", "party", "quick", "brown"} -> 5
      [] w \in {"budget"} -> 6
      [] w \in {"meeting"} -> 7
      [] OTHER -> 0

\* the pairs <<a, b>> of distinct model words with a a substring of b
ProperInfix == {<<"art", "party">>}

\* the stop words of _extract_query_concepts the model uses
StopWords == {"the", "and", "for", "will", "been", "from", "think", "also"}

(***************************************************************************)
(* Messages: a content with the analysis (ai_response) stored with it      *)
(***************************************************************************)
ContentWords(c) ==
    CASE c = "meeting with alice" -> {"meeting", "with", "alice"}
      [] c = "lunch with bob" -> {"lunch", "with", "bob"}
      [] c = "budget party" -> {"budget", "party"}
      [] c = "quarterly budget review with alice and the finance team approved" ->
             {"quarterly", "budget", "review", "with", "alice", "and", "the",
              "finance", "team", "approved"}
      [] c = "quarterly budget review with alice and the finance team rejected" ->
             {"quarterly", "budget", "review", "with", "alice", "and", "the",
              "finance", "team", "rejected"}
      [] OTHER -> {}

\* ai_response['entities']
Entities(c) ==
    CASE c = "meeting with alice" -> <<"Alice">>
      [] c = "lunch with bob" -> <<"Bob">>
      [] OTHER -> <<>>

\* ai_response['keywords']
Keywords(c) ==
    CASE c = "meeting with alice" -> <<"meeting">>
      [] c = "budget party" -> <<"budget">>
      [] OTHER -> <<>>

\* ai_response['relationships'] as (concept1, concept2, strength in percent)
Relationships(c) ==
    CASE c = "meeting with alice" -> {<<"alice", "meeting", 80>>}
      [] c = "budget party" -> {<<"budget", "meeting", 60>>}
      [] OTHER -> {}

\* content[:50]: the contents of 64 characters lose their last 14, a shorter
\* content is its own prefix
Prefix50(c) ==
    IF c \in {"quarterly budget review with alice and the finance team approved",
              "quarterly budget review with alice and the finance team rejected"}
    THEN "quarterly budget review with alice and the finance"
    ELSE c

Range(s) == {s[i] : i \in 1..Len(s)}

\* concept.lower() in content.lower()
InContent(concept, c) ==
    \E w \in ContentWords(c) :
        Lower(concept) = w \/ <<Lower(concept), w>> \in ProperInfix

(***************************************************************************)
(* _combine_and_rank_memories                                              *)
(***************************************************************************)
SemanticWeightPct(use_long_context) == IF use_long_context THEN 60 ELSE 70
TemporalWeightPct(use_long_context) == IF use_long_context THEN 25 ELSE 30
GraphWeightPct(use_long_context) == IF use_long_context THEN 25 ELSE 20

NoCertainty == 0 - 1

\* mem_id = memory.get('timestamp', '') + memory.get('content', '')[:50]
MemId(m) == <<m.timestamp, Prefix50(m.content)>>

\* a dict without the key 'connections', and one that has it
NoConnections == [present |-> FALSE, rows |-> <<>>]
Connections(rows) == [present |-> TRUE, rows |-> rows]

Candidate(m, certainty, score, source) ==
    [content |-> m.content, timestamp |-> m.timestamp, user_id |-> m.user_id,
     certainty |-> certainty, score |-> score, source |-> source,
     temporal_factor |-> NoFactor, connections |-> NoConnections]

\* a lookup that finds no key
IndexOfKeyAbsent(combined, key) == 0

\* the position of key in the dict (0: absent); a dict keeps insertion order
RECURSIVE IndexOfKey(_, _)
IndexOfKey(combined, key) ==
    IF combined = <<>> THEN 0
    ELSE IF MemId(combined[Len(combined)]) = key
              /\ IndexOfKey(SubSeq(combined, 1, Len(combined) - 1), key) = 0
         THEN Len(combined)
         ELSE IndexOfKey(SubSeq(combined, 1, Len(combined) - 1), key)

\* for memory in vector_memories: combined[mem_id] = memory
RECURSIVE AddVector(_, _, _)
AddVector(combined, vector_memories, use_long_context) ==
    IF vector_memories = <<>> THEN combined
    ELSE LET m == Head(vector_memories)
             c == Candidate(m, m.certainty,
                            m.certainty * SemanticWeightPct(use_long_context) * 100,
                            "vector")
             i == IndexOfKey(combined, MemId(m))
         IN AddVector(IF i = 0 THEN Append(combined, c)
                      ELSE [combined EXCEPT ![i] = c],
                      Tail(vector_memories), use_long_context)

\* for memory in recent_memories: boost the entry, or add the memory
RECURSIVE AddRecent(_, _, _)
AddRecent(combined, recent_memories, use_long_context) ==
    IF recent_memories = <<>> THEN combined
    ELSE LET m == Head(recent_memories)
             tw == TemporalWeightPct(use_long_context) * Micro
             i == IndexOfKey(combined, MemId(m))
         IN AddRecent(IF i = 0
                      THEN Append(combined, Candidate(m, NoCertainty, tw, "temporal"))
                      ELSE [combined EXCEPT ![i].score = @ + tw],
                      Tail(recent_memories), use_long_context)

\* concept_matches of one concept against one memory
ConceptMatches(concept, m) ==
    (IF InContent(concept, m.content) THEN 2 ELSE 0)
    + (IF Lower(concept) \in {Lower(e) : e \in Range(Entities(m.content))}
       THEN 3 ELSE 0)
    + (IF Lower(concept) \in {Lower(w) : w \in Range(Keywords(m.content))}
       THEN 1 ELSE 0)

\* a boost that is taken from the score
BoostSubtracted(concept_data, m, use_long_context) ==
    0 - concept_data.strength * GraphWeightPct(use_long_context)
            * ConceptMatches(concept_data.concept, m) * 10000

\* boost = strength * graph_weight * concept_matches  (in 1e-8)
Boost(concept_data, m, use_long_context) ==
    concept_data.strength * GraphWeightPct(use_long_context)
        * ConceptMatches(concept_data.concept, m) * 10000

RECURSIVE AddGraph(_, _, _)
AddGraph(combined, graph_concepts, use_long_context) ==
    IF graph_concepts = <<>> THEN combined
    ELSE AddGraph([i \in 1..Len(combined) |->
                      [combined[i] EXCEPT
                          !.score = @ + Boost(Head(graph_concepts), combined[i],
                                              use_long_context)]],
                  Tail(graph_concepts), use_long_context)

CombineAndRankMemories(vector_memories, recent_memories, graph_concepts, use_long_context) ==
    SortByScore(
        AddGraph(AddRecent(AddVector(<<>>, vector_memories, use_long_context),
                           recent_memories, use_long_context),
                 graph_concepts, use_long_context))

(***************************************************************************)
(* _extract_query_concepts.  A query is the sequence of its words.         *)
(***************************************************************************)
TopConcepts == 8

\* re.findall(r'\b[a-zA-Z]{3,}\b', query.lower())
QueryWords(query) ==
    LET low == [i \in 1..Len(query) |-> Lower(query[i])]
    IN SelectSeq(low, LAMBDA w : WordLen(w) >= 3)

\* [word for word in words if word not in stop_words and len(word) > 3]
ConceptWords(query) ==
    SelectSeq(QueryWords(query), LAMBDA w : w \notin StopWords /\ WordLen(w) > 3)

Frequency(concepts, w) == Cardinality({i \in 1..Len(concepts) : concepts[i] = w})

\* the index (from 0) whose assignment to concept_scores[w] is the last one
ScoringIndex(concepts, w) ==
    (CHOOSE i \in 1..Len(concepts) :
        /\ concepts[i] = w
        /\ \A j \in 1..Len(concepts) : concepts[j] = w => j <= i) - 1

\* concept_scores[w] = position_weight * frequency_weight, times 10 * len(concepts)
ConceptScore(concepts, w) ==
    (10 * Len(concepts) - 3 * ScoringIndex(concepts, w)) * Frequency(concepts, w)

\* the keys of concept_scores in insertion order: each word at its first place
RECURSIVE Distinct(_)
Distinct(s) ==
    IF s = <<>> THEN <<>>
    ELSE LET init == Distinct(SubSeq(s, 1, Len(s) - 1))
         IN IF s[Len(s)] \in Range(init) THEN init ELSE Append(init, s[Len(s)])

ExtractQueryConcepts(query) ==
    LET concepts == ConceptWords(query)
        scored == [i \in 1..Len(Distinct(concepts)) |->
                      [concept |-> Distinct(concepts)[i],
                       score |-> ConceptScore(concepts, Distinct(concepts)[i])]]
        top == SortByScore(scored)
    IN [i \in 1..Min(TopConcepts, Len(top)) |-> top[i].concept]

(***************************************************************************)
(* The similarity index (WeaviateClient) over the stored memories          *)
(***************************************************************************)
MinCertainty == 6500

\* The certainty the index gives a memory for a query (the embedding model is
\* outside the repository): high when the texts share a word, low otherwise.
Certainty(query, content) ==
    IF \E i \in 1..Len(query) : Lower(query[i]) \in ContentWords(content)
    THEN 9000 ELSE 6000

Take(s, n) == SubSeq(s, 1, Min(n, Len(s)))

\* the dict search_memories / get_recent_memories builds from a stored item
Hit(item) == [content |-> item.content, timestamp |-> item.timestamp,
              user_id |-> item.user_id]

RECURSIVE InsertByKey(_, _)
InsertByKey(s, m) ==
    IF s = <<>> THEN <<m>>
    ELSE IF Head(s).key >= m.key
         THEN <<Head(s)>> \o InsertByKey(Tail(s), m)
         ELSE <<m>> \o s

\* stable sort, descending by the field key
RECURSIVE SortByKey(_)
SortByKey(s) ==
    IF s = <<>> THEN <<>>
    ELSE InsertByKey(SortByKey(SubSeq(s, 1, Len(s) - 1)), s[Len(s)])

OfUser(items, user_id) == SelectSeq(items, LAMBDA it : it.user_id = user_id)

\* what a collaborator call gives its caller: its rows, or an exception
Returned(rows) == [raised |-> FALSE, rows |-> rows]
Threw == [raised |-> TRUE, rows |-> <<>>]

\* search_memories: near-text search among the user's memories, nearest
\* first, cut to limit, then filtered by min_certainty; its own handler
\* returns [] when the query fails
SearchRows(mine, query, limit) ==
    LET keyed == [i \in 1..Len(mine) |->
                     [key |-> Certainty(query, mine[i].content),
                      item |-> mine[i]]]
        kept == SelectSeq(Take(SortByKey(keyed), limit),
                          LAMBDA r : r.key >= MinCertainty)
    IN [i \in 1..Len(kept) |->
           [content |-> kept[i].item.content,
            timestamp |-> kept[i].item.timestamp,
            user_id |-> kept[i].item.user_id,
            certainty |-> kept[i].key]]

\* the memories search_memories searches: the where filter on user_id is
\* added only 'if user_id:', so an empty id searches the memories of everyone
SearchScope(items, user_id) ==
    IF user_id = "" THEN items ELSE OfUser(items, user_id)

\* search_memories without its handler: the exception reaches the caller
SearchMemoriesUnguarded(items, query, user_id, limit, outcome) ==
    IF outcome = "raise" THEN Threw
    ELSE Returned(SearchRows(SearchScope(items, user_id), query, limit))

SearchMemories(items, query, user_id, limit, outcome) ==
    IF outcome = "raise" THEN Returned(<<>>)
    ELSE Returned(SearchRows(SearchScope(items, user_id), query, limit))

\* get_recent_memories: the user's memories, newest first, cut to limit; its
\* own handler returns [] when the query fails
RecentRows(mine, limit) ==
    LET keyed == [i \in 1..Len(mine) |->
                     [key |-> mine[i].timestamp.at, item |-> mine[i]]]
        newest == Take(SortByKey(keyed), limit)
    IN [i \in 1..Len(newest) |-> Hit(newest[i].item)]

GetRecentMemories(items, user_id, limit, outcome) ==
    IF outcome = "raise" THEN Returned(<<>>)
    ELSE Returned(RecentRows(OfUser(items, user_id), limit))

(***************************************************************************)
(* The relationship graph (Neo4jClient) over the stored memories           *)
(***************************************************************************)
GRAPH_TRAVERSE_DEPTH == 4
MinStrength == 50
RelatedLimit == 8

\* the RELATED_TO edges create_concept_relationships has merged
ConceptEdges(items) ==
    UNION {Relationships(items[i].content) : i \in 1..Len(items)}

OtherEnd(e, c) == IF e[1] = c THEN e[2] ELSE e[1]

\* the paths of one or two distinct edges that start at concept, as
\* (end node, sum of the strengths, length)
PathsFrom(edges, concept) ==
    LET one == {e \in edges : concept \in {e[1], e[2]}}
    IN {<<OtherEnd(e, concept), e[3], 1>> : e \in one}
       \cup {<<OtherEnd(f, OtherEnd(e, concept)), e[3] + f[3], 2>> :
                <<e, f>> \in {p \in one \X edges :
                                 /\ p[2] # p[1]
                                 /\ OtherEnd(p[1], concept) \in {p[2][1], p[2][2]}}}

RECURSIVE SeqOfSet(_)
SeqOfSet(S) ==
    IF S = {} THEN <<>>
    ELSE LET x == CHOOSE y \in S : TRUE IN <<x>> \o SeqOfSet(S \ {x})

\* find_related_concepts: the concepts within depth hops of concept whose
\* average strength is at least min_strength, strongest first; its own
\* handler returns [] on failure
RelatedRows(rows) ==
    LET listed == SeqOfSet(rows)
        keyed == [i \in 1..Len(listed) |->
                     [key |-> (listed[i][2] \div listed[i][3]) * 10 - listed[i][3],
                      concept |-> listed[i][1],
                      strength |-> listed[i][2] \div listed[i][3],
                      distance |-> listed[i][3]]]
        best == Take(SortByKey(keyed), RelatedLimit)
    IN [i \in 1..Len(best) |->
           [concept |-> best[i].concept, strength |-> best[i].strength,
            distance |-> best[i].distance]]

FindRelatedConcepts(items, concept, depth, outcome) ==
    IF outcome = "raise" THEN Returned(<<>>)
    ELSE Returned(RelatedRows(
             {p \in PathsFrom(ConceptEdges(items), concept) :
                 p[3] <= depth /\ p[2] \div p[3] >= MinStrength}))

TrendingDays == 7
TrendingLimit == 15

\* the entity mentions (m)-[:MENTIONS]->(e) of the memories, in order
RECURSIVE Mentions(_)
Mentions(items) ==
    IF items = <<>> THEN <<>>
    ELSE Entities(Head(items).content) \o Mentions(Tail(items))

\* get_trending_entities: the entities the user's memories of the last days
\* mention, most mentioned first; its own handler returns [] on failure
TrendingRows(mentions) ==
    LET names == Distinct(mentions)
        keyed == [i \in 1..Len(names) |->
                     [key |-> Frequency(mentions, names[i]),
                      entity |-> names[i]]]
        top == Take(SortByKey(keyed), TrendingLimit)
    IN [i \in 1..Len(top) |-> top[i].entity]

GetTrendingEntities(items, user_id, t, outcome) ==
    IF outcome = "raise" THEN Returned(<<>>)
    ELSE Returned(TrendingRows(Mentions(
             SelectSeq(OfUser(items, user_id),
                       LAMBDA it : it.timestamp.at >= t - TrendingDays * DAY))))

\* get_user_entity_network: the user's entities that have a RELATED_TO edge
\* to another entity.  Nothing in the repository creates such an edge
\* (RELATED_TO is merged between Concept nodes only), so no row matches,
\* whether the query succeeds or its handler returns [].
GetUserEntityNetwork(items, user_id) == Returned(<<>>)

\* find_memory_connections: up to limit other memories of the user that share
\* an entity with the memory
FindMemoryConnections(items, m, user_id, limit) ==
    LET others == SelectSeq(OfUser(items, user_id),
                     LAMBDA it : /\ Hit(it) # Hit(m)
                                 /\ Range(Entities(it.content))
                                      \cap Range(Entities(m.content)) # {})
    IN [i \in 1..Min(limit, Len(others)) |-> others[i].content]

(***************************************************************************)
(* The result cache: cachetools.LRUCache, least recently used first        *)
(***************************************************************************)
LRU_CACHE_SIZE == 2

CacheIndex(c, key) ==
    IF \E i \in 1..Len(c) : c[i].key = key
    THEN CHOOSE i \in 1..Len(c) : c[i].key = key
    ELSE 0

\* cache_key in self.cache
CacheHas(c, key) == CacheIndex(c, key) # 0

\* the value self.cache[cache_key] returns
CacheValue(c, key) == c[CacheIndex(c, key)].value

Without(c, i) == SubSeq(c, 1, i - 1) \o SubSeq(c, i + 1, Len(c))

\* a read that leaves the order of the entries alone
CacheTouchNot(c, key) == c

\* the cache after self.cache[cache_key] was read: the entry is the newest
CacheTouch(c, key) ==
    Append(Without(c, CacheIndex(c, key)), c[CacheIndex(c, key)])

\* a cache that keeps nothing
CachePutNothing(c, key, value) == c

\* a write that extends the list an entry already holds
CachePutExtending(c, key, value) ==
    IF CacheHas(c, key)
    THEN Append(Without(c, CacheIndex(c, key)),
                [key |-> key, value |-> CacheValue(c, key) \o value])
    ELSE Append(IF Len(c) + 1 > LRU_CACHE_SIZE
                THEN SubSeq(c, Len(c) + 2 - LRU_CACHE_SIZE, Len(c)) ELSE c,
                [key |-> key, value |-> value])

\* the cache after self.cache[cache_key] = value
CachePut(c, key, value) ==
    IF CacheHas(c, key)
    THEN Append(Without(c, CacheIndex(c, key)), [key |-> key, value |-> value])
    ELSE LET room == IF Len(c) + 1 > LRU_CACHE_SIZE
                     THEN SubSeq(c, Len(c) + 2 - LRU_CACHE_SIZE, Len(c))
                     ELSE c
         IN Append(room, [key |-> key, value |-> value])

CacheKeys(c) == {c[i].key : i \in 1..Len(c)}

(***************************************************************************)
(* retrieve_context                                                        *)
(***************************************************************************)
VECTOR_SEARCH_LIMIT == 20
CONTEXT_MEMORY_LIMIT == 50
ENABLE_LONG_CONTEXT == TRUE
Default == 0

\* a stand-in for hash(query): a polynomial hash of the words
WordCode(w) ==
    CASE w = "Alice" -> 1 [] w = "Bob" -> 2 [] w = "the" -> 3
      [] w = "alice" -> 4 [] w = "budget" -> 5 [] w = "meeting" -> 6
      [] OTHER -> 7

RECURSIVE Hash(_)
Hash(query) ==
    IF query = <<>> THEN 0
    ELSE (Hash(SubSeq(query, 1, Len(query) - 1)) * 31
            + WordCode(query[Len(query)])) % 1000003

\* k after the defaults and the long-context widening
EffectiveLimit(k, use_long_context) ==
    LET k0 == IF k = Default THEN VECTOR_SEARCH_LIMIT ELSE k
    IN IF use_long_context THEN Min(k0 * 2, CONTEXT_MEMORY_LIMIT) ELSE k0

\* a cache key that leaves the limit out
ContextKeyWithoutLimit(user_id, query, k, include_graph, use_long_context) ==
    <<"context", user_id, Hash(query), include_graph>>

\* f"context:{user_id}:{hash(query)}:{k}:{include_graph}"
ContextKey(user_id, query, k, include_graph, use_long_context) ==
    <<"context", user_id, Hash(query), k, include_graph>>

\* the long-context flag after its default (settings.ENABLE_LONG_CONTEXT)
UseLongContext(long_arg) ==
    IF long_arg = "default" THEN ENABLE_LONG_CONTEXT ELSE long_arg = "yes"

\* two collaborator results, one after the other
Both(a, b) == [raised |-> a.raised \/ b.raised, rows |-> a.rows \o b.rows]

\* the graph fan-out: one find_related_concepts call per query concept;
\* failing is the set of concepts whose lookup fails
RECURSIVE GraphConcepts(_, _, _)
GraphConcepts(items, concepts, failing) ==
    IF concepts = <<>> THEN Returned(<<>>)
    ELSE Both(FindRelatedConcepts(items, Head(concepts), GRAPH_TRAVERSE_DEPTH,
                  IF Head(concepts) \in failing THEN "raise" ELSE "ok"),
              GraphConcepts(items, Tail(concepts), failing))

\* The outcomes of the collaborators' store queries during one call of the
\* engine: "ok" or "raise" for the two searches, the set of concepts whose
\* graph lookup fails.  A call served by the cache makes no query.
NoQuery == [search |-> "none", recent |-> "none", graph |-> {}]

AllOk == [search |-> "ok", recent |-> "ok", graph |-> {}]

\* may_fail names the collaborators whose queries can fail
Choice(may_fail, source) ==
    IF source \in may_fail THEN {"ok", "raise"} ELSE {"ok"}

Outcomes(called, concepts, may_fail) ==
    IF called
    THEN [search : Choice(may_fail, "search"), recent : Choice(may_fail, "recent"),
          graph : IF "graph" \in may_fail THEN SUBSET Range(concepts) ELSE {{}}]
    ELSE {NoQuery}

\* retrieve_context, cache hit: the cached list itself is returned
RetrieveFromCache(c, cache_key, use_long_context) ==
    [result |-> CacheValue(c, cache_key), cache |-> CacheTouch(c, cache_key),
     key |-> cache_key, hit |-> TRUE, calls |-> 0, raised |-> FALSE,
     long |-> use_long_context]

\* a miss that keeps an empty list out of the cache
RetrieveAndSkipEmpty(c, cache_key, use_long_context, calls, final_memories) ==
    [result |-> final_memories,
     cache |-> IF final_memories = <<>> THEN c
               ELSE CachePut(c, cache_key, final_memories),
     key |-> cache_key, hit |-> FALSE, calls |-> calls, raised |-> FALSE,
     long |-> use_long_context]

\* retrieve_context, the end of a miss: the final list is cached and returned
RetrieveAndCache(c, cache_key, use_long_context, calls, final_memories) ==
    [result |-> final_memories, cache |-> CachePut(c, cache_key, final_memories),
     key |-> cache_key, hit |-> FALSE, calls |-> calls, raised |-> FALSE,
     long |-> use_long_context]

\* retrieve_context, cache miss: the three sources are combined, scored and
\* cut to k; an exception that reaches the handler gives [] and no cache entry
RetrieveFromSources(c, cache_key, k, use_long_context, t, calls, vector_memories, graph_concepts, recent_memories) ==
    IF vector_memories.raised \/ graph_concepts.raised \/ recent_memories.raised
    THEN [result |-> <<>>, cache |-> c, key |-> cache_key, hit |-> FALSE,
          calls |-> calls, raised |-> FALSE, long |-> use_long_context]
    ELSE RetrieveAndCache(c, cache_key, use_long_context, calls,
             Take(ApplyTemporalScoring(
                      CombineAndRankMemories(vector_memories.rows,
                                             recent_memories.rows,
                                             graph_concepts.rows,
                                             use_long_context),
                      t, use_long_context),
                  k))

\* retrieve_context without a handler, over a search without one: the
\* exception reaches the caller
RetrieveFromSourcesUnhandled(c, cache_key, k, use_long_context, t, calls, vector_memories, graph_concepts, recent_memories) ==
    IF vector_memories.raised \/ graph_concepts.raised \/ recent_memories.raised
    THEN [result |-> <<>>, cache |-> c, key |-> cache_key, hit |-> FALSE,
          calls |-> calls, raised |-> TRUE, long |-> use_long_context]
    ELSE RetrieveFromSources(c, cache_key, k, use_long_context, t, calls,
                             vector_memories, graph_concepts, recent_memories)

\* a similarity search that is asked for the whole limit
SimilarityLimitWhole(k) == k

\* limit=k//2 of the similarity search
SimilarityLimit(k) == k \div 2

\* limit=k//3 of the recency search
RecencyLimit(k) == k \div 3

RetrieveKeyedUnguarded(c, items, t, query, user_id, k, use_long_context, oc, cache_key, query_concepts) ==
    IF CacheHas(c, cache_key)
    THEN RetrieveFromCache(c, cache_key, use_long_context)
    ELSE RetrieveFromSourcesUnhandled(c, cache_key, k, use_long_context, t,
             2 + Len(query_concepts),
             SearchMemoriesUnguarded(items, query, user_id, SimilarityLimit(k),
                                     oc.search),
             GraphConcepts(items, query_concepts, oc.graph),
             GetRecentMemories(items, user_id, RecencyLimit(k), oc.recent))

RetrieveKeyed(c, items, t, query, user_id, k, use_long_context, oc, cache_key, query_concepts) ==
    IF CacheHas(c, cache_key)
    THEN RetrieveFromCache(c, cache_key, use_long_context)
    ELSE RetrieveFromSources(c, cache_key, k, use_long_context, t,
             2 + Len(query_concepts),
             SearchMemories(items, query, user_id, SimilarityLimit(k), oc.search),
             GraphConcepts(items, query_concepts, oc.graph),
             GetRecentMemories(items, user_id, RecencyLimit(k), oc.recent))

\* a fan-out that does not ask whether the graph was requested
QueryConceptsAlways(query, include_graph) == ExtractQueryConcepts(query)

\* the concepts retrieve_context looks up in the graph
QueryConcepts(query, include_graph) ==
    IF include_graph THEN ExtractQueryConcepts(query) ELSE <<>>

\* retrieve_context: what it returns, the cache it leaves, whether the cache
\* served it, the collaborator calls it made and whether it raised
RetrieveContext(c, items, t, query, user_id, k_arg, include_graph, long_arg, oc) ==
    RetrieveKeyed(c, items, t, query, user_id,
                  EffectiveLimit(k_arg, UseLongContext(long_arg)),
                  UseLongContext(long_arg), oc,
                  ContextKey(user_id, query,
                             EffectiveLimit(k_arg, UseLongContext(long_arg)),
                             include_graph, UseLongContext(long_arg)),
                  QueryConcepts(query, include_graph))

\* whether retrieve_context would go to its sources
Misses(c, query, user_id, k_arg, include_graph, long_arg) ==
    ~CacheHas(c, ContextKey(user_id, query,
                            EffectiveLimit(k_arg, UseLongContext(long_arg)),
                            include_graph, UseLongContext(long_arg)))

(***************************************************************************)
(* get_proactive_context                                                   *)
(***************************************************************************)
TrendingNames == 8
ConnectedNames == 5
ConnectionLimit == 5

\* dicts that carry an 'id'
MemoryIdPresent(m) == m.content

\* memory.get('id', ''): the dicts search_memories and get_recent_memories
\* build carry no 'id'
MemoryId(m) == ""

\* the loop body of _add_memory_connections: the dict is changed in place
AddConnections(items, m, user_id) ==
    IF MemoryId(m) # ""
    THEN [m EXCEPT !.connections =
             Connections(FindMemoryConnections(items, m, user_id, ConnectionLimit))]
    ELSE m

\* a loop that appends only the dicts it has looked up
AddMemoryConnectionsLookedUp(items, memories, user_id) ==
    LET found == SelectSeq(memories, LAMBDA m : MemoryId(m) # "")
    IN [i \in 1..Len(found) |-> AddConnections(items, found[i], user_id)]

\* _add_memory_connections: every dict is appended, looked up or not
AddMemoryConnections(items, memories, user_id) ==
    [i \in 1..Len(memories) |-> AddConnections(items, memories[i], user_id)]

\* proactive_query as the sequence of its words
ProactiveQuery(current_input, trending_entities, entity_network) ==
    current_input \o Take(trending_entities, TrendingNames)
                  \o Take(entity_network, ConnectedNames)

\* max_memories after its default
ProactiveLimit(max_memories) ==
    IF max_memories = Default THEN CONTEXT_MEMORY_LIMIT ELSE max_memories

\* The list retrieve_context returns is the list object the cache holds under
\* the key: what _add_memory_connections changes in its dicts is changed in
\* the cache entry too.
ProactiveEnhanced(r, proactive_query, enhanced_memories) ==
    [result |-> enhanced_memories,
     cache |-> IF CacheHas(r.cache, r.key)
               THEN [r.cache EXCEPT ![CacheIndex(r.cache, r.key)].value =
                                        enhanced_memories]
               ELSE r.cache,
     key |-> r.key, hit |-> r.hit, calls |-> 2 + r.calls, raised |-> FALSE,
     query |-> proactive_query, retrieved |-> r.result]

\* an exception of retrieve_context would reach the handler of
\* get_proactive_context, which returns []
ProactiveRetrieved(items, user_id, proactive_query, r) ==
    IF r.raised
    THEN [result |-> <<>>, cache |-> r.cache, key |-> r.key, hit |-> r.hit,
          calls |-> 2 + r.calls, raised |-> FALSE, query |-> proactive_query,
          retrieved |-> <<>>]
    ELSE ProactiveEnhanced(r, proactive_query,
                           AddMemoryConnections(items, r.result, user_id))

ProactiveQueried(c, items, t, user_id, max_memories, oc, proactive_query) ==
    ProactiveRetrieved(items, user_id, proactive_query,
        RetrieveContext(c, items, t, proactive_query, user_id,
                        ProactiveLimit(max_memories), TRUE, "yes", oc))

\* the query get_proactive_context builds from the live input, the trending
\* entities and the entity network
BuiltQuery(items, t, user_id, current_input, trending) ==
    ProactiveQuery(current_input,
                   GetTrendingEntities(items, user_id, t, trending).rows,
                   GetUserEntityNetwork(items, user_id).rows)

\* get_proactive_context; trending is the outcome of the trending query, oc
\* the outcomes of the queries of retrieve_context
GetProactiveContext(c, items, t, user_id, current_input, max_memories, trending, oc) ==
    ProactiveQueried(c, items, t, user_id, max_memories, oc,
                     BuiltQuery(items, t, user_id, current_input, trending))

(***************************************************************************)
(* The engine after construction (MemoryManager.__init__) and its          *)
(* operations                                                              *)
(***************************************************************************)
MaxStore == 2

Users == {"u1"}
Messages == {"meeting with alice"}
Queries == {<<"Alice">>, <<"the">>}
Limits == {1, 2}
LiveInputs == {<<>>, <<"the">>}
ProactiveLimits == {1, Default}

\* the instants at which the operations run: a start, and more than a week later
Instants == {0, 7 * DAY + 4}

NoCall == [op |-> "none"]

\* history: the keys the cache holds, in the order of their last use
Use(c, key) ==
    SelectSeq(SelectSeq(used, LAMBDA x : x # key) \o <<key>>,
              LAMBDA x : x \in CacheKeys(c))

(***************************************************************************)
(* The session store (Redis): a list of snapshots per user, newest first   *)
(***************************************************************************)
SessionCap == 3

\* session_limit = min(75, settings.CONTEXT_MEMORY_LIMIT * 2), with the cap
\* SessionCap for the 75
SessionLimit == Min(SessionCap, CONTEXT_MEMORY_LIMIT * 2)

\* expire(session_key, 172800): 48 hours
SessionTtl == 48 * HOUR

SessionUsers == {"u1", "u:2", ""}

NoSession == [rows |-> <<>>, expires |-> 0]

\* session_memory: the memory_data of store_memory with its session_timestamp
Snapshot(item, memory_id, t) ==
    [id |-> memory_id, content |-> item.content, user_id |-> item.user_id,
     timestamp |-> item.timestamp, session_timestamp |-> t]

\* the list under the key at time t: gone when the key has expired
SessionRows(s, user_id, t) ==
    IF t < s[user_id].expires THEN s[user_id].rows ELSE <<>>

\* a list that is never trimmed
SessionUntrimmed(rows) == rows

\* ltrim(session_key, 0, session_limit - 1)
SessionTrim(rows) == Take(rows, SessionLimit)

\* _update_session_context: lpush, ltrim, expire
UpdateSessionContext(s, user_id, snapshot, t) ==
    [s EXCEPT ![user_id] =
        [rows |-> SessionTrim(<<snapshot>> \o SessionRows(s, user_id, t)),
         expires |-> t + SessionTtl]]

\* get_session_context: lrange(session_key, 0, limit - 1)
GetSessionContext(s, user_id, limit, t) == Take(SessionRows(s, user_id, t), limit)

EngineInit ==
    /\ now = 0
    /\ store = <<>>
    /\ cache = <<>>
    /\ last = NoCall
    /\ used = <<>>
    /\ session = [u \in SessionUsers |-> NoSession]

FuncIdle ==
    /\ fpc = "idle"
    /\ fin = <<>>
    /\ fout = <<>>

\* store_memory: the memory goes to the index and the graph, a copy to the
\* cache under f"memory:{memory_id}" and a snapshot to the user's session
\* list; most bounds the number of memories stored
StoreMemoryUpTo(content, user_id, most) ==
    /\ Len(store) < most
    /\ \E item \in {[content |-> content, user_id |-> user_id,
                     timestamp |-> Stamp(now)]} :
          /\ store' = Append(store, item)
          /\ cache' = CachePut(cache, <<"memory", Len(store) + 1>>, <<Hit(item)>>)
          /\ used' = Use(cache', <<"memory", Len(store) + 1>>)
          /\ session' = UpdateSessionContext(session, user_id,
                                              Snapshot(item, Len(store) + 1, now), now)
          /\ last' = [op |-> "store", user_id |-> user_id, content |-> content]
    /\ UNCHANGED <<now, funcVars>>

StoreMemory(content, user_id) == StoreMemoryUpTo(content, user_id, MaxStore)

Retrieve(query, user_id, k, include_graph, long_arg, may_fail) ==
    /\ \E oc \in Outcomes(Misses(cache, query, user_id, k, include_graph, long_arg),
                          QueryConcepts(query, include_graph), may_fail) :
          \E r \in {RetrieveContext(cache, store, now, query, user_id, k,
                                    include_graph, long_arg, oc)} :
              /\ cache' = r.cache
              /\ used' = Use(r.cache, r.key)
              /\ last' = [op |-> "retrieve", at |-> now, query |-> query,
                          user_id |-> user_id,
                          k |-> k, include_graph |-> include_graph,
                          long |-> r.long, key |-> r.key, result |-> r.result,
                          hit |-> r.hit, calls |-> r.calls, raised |-> r.raised,
                          trending |-> "none", oc |-> oc,
                          retrieved |-> r.result]
    /\ UNCHANGED <<now, store, session, funcVars>>

Proactive(user_id, current_input, max_memories, trending, may_fail) ==
    /\ \E q \in {BuiltQuery(store, now, user_id, current_input, trending)} :
          \E oc \in Outcomes(Misses(cache, q, user_id,
                                    ProactiveLimit(max_memories), TRUE, "yes"),
                             QueryConcepts(q, TRUE), may_fail) :
              \E r \in {GetProactiveContext(cache, store, now, user_id,
                                            current_input, max_memories,
                                            trending, oc)} :
                  /\ cache' = r.cache
                  /\ used' = Use(r.cache, r.key)
                  /\ last' = [op |-> "proactive", at |-> now, query |-> r.query,
                              user_id |-> user_id,
                              k |-> ProactiveLimit(max_memories),
                              include_graph |-> TRUE, long |-> TRUE,
                              key |-> r.key, result |-> r.result,
                              hit |-> r.hit, calls |-> r.calls,
                              raised |-> r.raised, trending |-> trending,
                              oc |-> oc, retrieved |-> r.retrieved]
    /\ UNCHANGED <<now, store, session, funcVars>>

\* time passes
Advance(t) ==
    /\ t > now
    /\ now' = t
    /\ UNCHANGED <<store, cache, last, used, session, funcVars>>

Init == EngineInit /\ FuncIdle

Next ==
    \/ \E content \in Messages, user_id \in Users : StoreMemory(content, user_id)
    \/ \E query \in Queries, user_id \in Users, k \in Limits,
          include_graph \in BOOLEAN, long_arg \in {"yes", "no"} :
          Retrieve(query, user_id, k, include_graph, long_arg, {})
    \/ \E user_id \in Users, current_input \in LiveInputs,
          max_memories \in ProactiveLimits :
          Proactive(user_id, current_input, max_memories, "ok", {})
    \/ \E t \in Instants : Advance(t)

Spec == Init /\ [][Next]_vars

(***************************************************************************)
(* SpecFaulty: the engine when the queries of its collaborators can fail   *)
(***************************************************************************)
Sources == {"search", "recent", "graph"}

NextFaulty ==
    \/ \E content \in Messages, user_id \in Users : StoreMemory(content, user_id)
    \/ \E user_id \in Users, long_arg \in {"yes", "no"} :
          Retrieve(<<"Alice">>, user_id, 2, TRUE, long_arg, Sources)
    \/ \E user_id \in Users, trending \in {"ok", "raise"} :
          Proactive(user_id, <<>>, Default, trending, Sources)
    \/ \E t \in Instants : Advance(t)

SpecFaulty == Init /\ [][NextFaulty]_vars

(***************************************************************************)
(* SpecDecay: _apply_temporal_scoring applied to two candidates that       *)
(* differ only in age                                                      *)
(***************************************************************************)
AgeSpread == 2
OldDays == 30

\* the ages around the tier bounds (1 hour, 24 hours, 7 days), and an old one
Ages ==
    {a \in UNION {{b - d, b + d} : b \in {0, HOUR, DAY, WEEK}, d \in 0..AgeSpread} :
        a >= 0}
    \cup {OldDays * DAY}

\* the instant at which the function runs (current_time)
DecayNow == OldDays * DAY

\* combined scores: a recency hit (0.3), a similarity hit of certainty 0.9
\* (0.63), and one that is both (0.93)
DecayScores == {30 * Micro, 63 * Micro, 93 * Micro}

DecayCandidate(score, age) ==
    [Candidate([content |-> "meeting with alice",
                timestamp |-> Stamp(DecayNow - age), user_id |-> "u1"],
               9000, score, "vector")
     EXCEPT !.score = score]

InitDecay ==
    /\ EngineInit
    /\ fpc = "in"
    /\ fin \in [use_long_context : BOOLEAN, score : DecayScores,
                ageA : Ages, ageB : Ages]
    /\ fout = <<>>

ApplyDecay ==
    /\ fpc = "in"
    /\ fout' = ApplyTemporalScoring(
                   <<DecayCandidate(fin.score, fin.ageA),
                     DecayCandidate(fin.score, fin.ageB)>>,
                   DecayNow, fin.use_long_context)
    /\ fpc' = "out"
    /\ UNCHANGED <<fin, engineVars>>

NextDecay == ApplyDecay

SpecDecay == InitDecay /\ [][NextDecay]_vars

AgeOf(m) == DecayNow - m.timestamp.at

\* C3 (as claimed): of two candidates with the same combined score that differ
\* only in age, the younger one never leaves _apply_temporal_scoring with a
\* lower final score than the older one, in normal and in long-context mode.
C3_YoungerNeverLower ==
    fpc = "out" =>
        \A i, j \in 1..Len(fout) :
            AgeOf(fout[i]) < AgeOf(fout[j]) => fout[i].score >= fout[j].score

(***************************************************************************)
(* Properties of retrieve_context and of the result cache                  *)
(***************************************************************************)
IsCall == last.op \in {"retrieve", "proactive"}

\* a step that is a call of retrieve_context or get_proactive_context
CallStep == /\ now' = now
            /\ store' = store
            /\ last'.op \in {"retrieve", "proactive"}

SameArguments(a, b) ==
    /\ a.query = b.query
    /\ a.user_id = b.user_id
    /\ a.k = b.k
    /\ a.include_graph = b.include_graph
    /\ a.long = b.long

\* C1: retrieve_context returns at most effective_limit candidates, which is
\* the limit, or min(limit * 2, CONTEXT_MEMORY_LIMIT) in long-context mode,
\* whether the cache served the call or not.
C1_AtMostEffectiveLimit ==
    IsCall => Len(last.result) <= EffectiveLimit(last.k, last.long)

\* a call served by the cache that returned a candidate and left a stored
\* memory out
C1_Witness ==
    /\ last.op = "retrieve"
    /\ last.hit
    /\ last.result # <<>>
    /\ Len(OfUser(store, last.user_id)) > Len(last.result)

\* C2: of two consecutive retrieve_context calls with identical arguments and
\* no store between them, the second is served by the cache, calls no
\* collaborator, and returns the list the first returned.
C2_SecondCallFromCache ==
    [][(/\ CallStep
        /\ last.op = "retrieve"
        /\ last'.op = "retrieve"
        /\ SameArguments(last, last'))
       => (/\ last'.hit
           /\ last'.calls = 0
           /\ last'.result = last.result)]_vars

\* a call served by the cache, without a collaborator call, that returned two
\* candidates
C2_Witness ==
    /\ last.op = "retrieve"
    /\ last.hit
    /\ last.calls = 0
    /\ Len(last.result) = 2

\* C4 (as claimed): two consecutive calls that differ in the long-context flag
\* never use the same cache entry.
C4_ModesNeverShare ==
    [][(/\ CallStep
        /\ IsCall
        /\ last.long # last'.long)
       => last'.key # last.key]_vars

\* C5: a list written to the cache stays as written until its entry is evicted
\* or replaced: no step changes the value under a key the cache keeps, and a
\* hit returns the value the cache holds.
C5_EntriesNeverChangedInPlace ==
    [][/\ \A i \in 1..Len(cache), j \in 1..Len(cache') :
              cache[i].key = cache'[j].key => cache'[j].value = cache[i].value
       /\ (CallStep /\ last'.hit) => last'.result = CacheValue(cache, last'.key)]_vars

\* get_proactive_context enriched a non-empty list the cache served, with
\* another memory of the user in the store
C5_Witness ==
    /\ last.op = "proactive"
    /\ last.hit
    /\ last.result # <<>>
    /\ Len(OfUser(store, last.user_id)) = 2

\* C6 (as claimed): get_proactive_context with no live input and no trending
\* entities, so with an empty query, returns an empty sequence and raises
\* nothing.
C6_EmptyQueryEmptyResult ==
    (last.op = "proactive" /\ last.query = <<>>)
        => (last.result = <<>> /\ ~last.raised)

\* C7: the cache never holds more than LRU_CACHE_SIZE entries; a key inserted
\* in the full cache evicts exactly the key used least recently (a hit is a
\* use), nothing else ever leaves the cache; and a lookup is a hit exactly
\* for the keys the cache holds.
C7_LeastRecentlyUsedEvicted ==
    [][/\ Len(cache') <= LRU_CACHE_SIZE
       /\ CacheKeys(cache) \ CacheKeys(cache') =
              IF /\ CacheKeys(cache') \ CacheKeys(cache) # {}
                 /\ Len(cache) = LRU_CACHE_SIZE
              THEN {used[1]} ELSE {}
       /\ CallStep => (last'.hit <=> last'.key \in CacheKeys(cache))]_vars

\* the full cache took a new key by a miss, and the entry of the first stored
\* memory is gone
C7_Witness ==
    /\ Len(cache) = LRU_CACHE_SIZE
    /\ store # <<>>
    /\ <<"memory", 1>> \notin CacheKeys(cache)
    /\ IsCall
    /\ ~last.hit
    /\ last.key \in CacheKeys(cache)

\* every row has a candidate of the same identity in the result
Supplied(rows, result) ==
    \A i \in 1..Len(rows) :
        \E j \in 1..Len(result) : MemId(result[j]) = MemId(rows[i])

\* the rows a source supplied to the last call
SearchSupplied ==
    IF last.oc.search = "ok"
    THEN SearchRows(OfUser(store, last.user_id), last.query,
                    EffectiveLimit(last.k, last.long) \div 2)
    ELSE <<>>

RecentSupplied ==
    IF last.oc.recent = "ok"
    THEN RecentRows(OfUser(store, last.user_id),
                    EffectiveLimit(last.k, last.long) \div 3)
    ELSE <<>>

\* C8: when a source of retrieve_context fails, the call returns the
\* candidates of the sources that succeeded, and no others.
C8_OtherSourcesStillReturned ==
    (IsCall /\ ~last.hit) =>
        /\ Supplied(SearchSupplied, last.result)
        /\ Supplied(RecentSupplied, last.result)
        /\ Supplied(last.result, SearchSupplied \o RecentSupplied)

\* the similarity search failed and the call returned a candidate
C8_Witness ==
    /\ last.op = "retrieve"
    /\ ~last.hit
    /\ last.oc.search = "raise"
    /\ last.result # <<>>

\* C9: retrieve_context and get_proactive_context return a list and raise
\* nothing, whatever the outcomes of the collaborators.
C9_AlwaysAList ==
    IsCall => (/\ ~last.raised
               /\ DOMAIN last.result = 1..Len(last.result))

\* every collaborator query of a get_proactive_context call failed
C9_Witness ==
    /\ last.op = "proactive"
    /\ store # <<>>
    /\ last.trending = "raise"
    /\ last.oc.search = "raise"
    /\ last.oc.recent = "raise"
    /\ last.result = <<>>

(***************************************************************************)
(* SpecRank: the miss branch of retrieve_context over two similarity hits  *)
(* of the same content and certainty, stored at different instants         *)
(***************************************************************************)
AncientDays == 800

\* ages inside the last day, inside the last week, and so old that the decay
\* is below the precision of the score
RankAges == {HOUR, 2 * DAY, AncientDays * DAY, (AncientDays + 1) * DAY}

RankNow == (AncientDays + 1) * DAY

RankCertainties == {7000, 9000}

RankRow(certainty, age) ==
    [content |-> "meeting with alice", timestamp |-> Stamp(RankNow - age),
     user_id |-> "u1", certainty |-> certainty]

\* the rows of search_memories, in the order the index returned them
RankVector == <<RankRow(fin.certainty, fin.ageA), RankRow(fin.certainty, fin.ageB)>>

\* the rows of get_recent_memories: none (k // 3 = 0), or the newest
RankRecent ==
    IF fin.k \div 3 = 0 THEN <<>>
    ELSE <<Hit(RankRow(fin.certainty, Min(fin.ageA, fin.ageB)))>>

InitRank ==
    /\ EngineInit
    /\ fpc = "in"
    /\ fin \in {f \in [use_long_context : BOOLEAN, k : {2, 4, 6},
                       certainty : RankCertainties,
                       ageA : RankAges, ageB : RankAges] : f.ageA # f.ageB}
    /\ fout = <<>>

ApplyRank ==
    /\ fpc = "in"
    /\ fout' = RetrieveFromSources(<<>>, <<"context", "u1", 1, fin.k, TRUE>>,
                                   fin.k, fin.use_long_context, RankNow, 3,
                                   Returned(RankVector), Returned(<<>>),
                                   Returned(RankRecent)).result
    /\ fpc' = "out"
    /\ UNCHANGED <<fin, engineVars>>

NextRank == ApplyRank

SpecRank == InitRank /\ [][NextRank]_vars

CombineNow == 10 * DAY

MaxRecent == 2
MaxGraph == 2

CombineRow(content, t, form) ==
    [content |-> content, timestamp |-> StampAs(t, form), user_id |-> "u1"]

\* rows of the index: fresh and old, and with every form of timestamp
CombineRows ==
    {CombineRow("meeting with alice", CombineNow - 1, "naive"),
     CombineRow("meeting with alice", 0, "naive"),
     CombineRow("meeting with alice", 0, "utc"),
     CombineRow("meeting with alice", CombineNow - 1, "offset"),
     CombineRow("meeting with alice", 0, "missing"),
     CombineRow("budget party", 0, "naive"),
     CombineRow("budget party", 0, "malformed")}

\* rows of search_memories: a row of the index with its certainty
VectorRows ==
    {[content |-> r.content, timestamp |-> r.timestamp, user_id |-> r.user_id,
      certainty |-> c] : r \in CombineRows, c \in {MinCertainty, 9000}}

\* rows of find_related_concepts
GraphRows ==
    {[concept |-> "alice", strength |-> 80, distance |-> 1],
     [concept |-> "meeting", strength |-> 50, distance |-> 2],
     [concept |-> "art", strength |-> 60, distance |-> 1]}

SeqsUpTo(S, n) == UNION {[1..m -> S] : m \in 0..n}

InitCombine ==
    /\ EngineInit
    /\ fpc = "in"
    /\ fin \in [use_long_context : BOOLEAN,
                vector : SeqsUpTo(VectorRows, 1),
                recent : SeqsUpTo(CombineRows, MaxRecent),
                graph : SeqsUpTo(GraphRows, MaxGraph)]
    /\ fout = <<>>

ApplyCombine ==
    /\ fpc = "in"
    /\ \E combined \in {CombineAndRankMemories(fin.vector, fin.recent, fin.graph,
                                               fin.use_long_context)} :
          fout' = [combined |-> combined,
                   ranked |-> ApplyTemporalScoring(combined, CombineNow,
                                                   fin.use_long_context)]
    /\ fpc' = "out"
    /\ UNCHANGED <<fin, engineVars>>

NextCombine == ApplyCombine

SpecCombine == InitCombine /\ [][NextCombine]_vars

\* C11: every candidate has a non-negative score after
\* _combine_and_rank_memories, and still after _apply_temporal_scoring,
\* whatever the similarity, recency and graph hits are.
C11_ScoresNonNegative ==
    fpc = "out" =>
        /\ \A i \in 1..Len(fout.combined) : fout.combined[i].score >= 0
        /\ \A i \in 1..Len(fout.ranked) : fout.ranked[i].score >= 0

\* candidates were combined and scored with no graph hit
C11_Witness ==
    /\ fpc = "out"
    /\ fin.graph = <<>>
    /\ Len(fout.ranked) = 2

(***************************************************************************)
(* SpecConcepts: _extract_query_concepts on queries over a few words       *)
(***************************************************************************)
MaxQueryLen == 6

ConceptVocabulary == {"the", "Quick", "quick", "fox", "brown"}

InitConcepts ==
    /\ EngineInit
    /\ fpc = "in"
    /\ fin \in [query : SeqsUpTo(ConceptVocabulary, MaxQueryLen)]
    /\ fout = <<>>

ApplyConcepts ==
    /\ fpc = "in"
    /\ fout' = ExtractQueryConcepts(fin.query)
    /\ fpc' = "out"
    /\ UNCHANGED <<fin, engineVars>>

NextConcepts == ApplyConcepts

SpecConcepts == InitConcepts /\ [][NextConcepts]_vars

\* the place of w in the sequence s, 0 when it is not there
PlaceOf(s, w) ==
    IF w \in Range(s) THEN CHOOSE i \in 1..Len(s) : s[i] = w /\ \A j \in 1..(i - 1) : s[j] # w
    ELSE 0

\* the alphabetic tokens of length >= 3 of the query that are no stop words
KeptTokens(query) == {w \in Range(QueryWords(query)) : w \notin StopWords}

\* C12: _extract_query_concepts returns every distinct alphabetic token of
\* length >= 3 that is not a stop word (up to the cap on the number of
\* concepts); for 'the quick quick fox the fox' it returns both 'quick' and
\* 'fox', 'quick' not after 'fox'.
C12_TokensOfThreeLettersKept ==
    fpc = "out" =>
        /\ Cardinality(KeptTokens(fin.query)) <= TopConcepts
              => KeptTokens(fin.query) \subseteq Range(fout)
        /\ fin.query = <<"the", "quick", "quick", "fox", "the", "fox">>
              => /\ {"quick", "fox"} \subseteq Range(fout)
                 /\ PlaceOf(fout, "quick") <= PlaceOf(fout, "fox")

(***************************************************************************)
(* Recency tiers (SpecDecay)                                               *)
(***************************************************************************)
\* the multiplier of the first of the bounds 1 hour, 24 hours, 7 days the age
\* is strictly below, and 1 when it is below none (in percent)
FirstBoundBelow(age, use_long_context) ==
    LET bounds == <<HOUR, DAY, WEEK>>
        multipliers == <<IF use_long_context THEN 130 ELSE 150,
                         IF use_long_context THEN 104 ELSE 120,
                         110>>
        below == {i \in 1..3 : age < bounds[i]}
    IN IF below = {} THEN 100
       ELSE multipliers[CHOOSE i \in below : \A j \in below : i <= j]

\* C13: a candidate aged exactly 30 minutes gets the <1-hour multiplier (1.5,
\* 1.3 in long-context mode), one aged 25 hours gets the <7-day multiplier
\* 1.1, and every age gets the multiplier of exactly one tier: the first of
\* the bounds 1 hour, 24 hours, 7 days it is strictly below.
C13_ExactlyOneTier ==
    fpc = "out" =>
        \A i \in 1..Len(fout) :
            /\ fout[i].temporal_factor =
                  (DecayPow(AgeOf(fout[i]), fin.use_long_context)
                     * FirstBoundBelow(AgeOf(fout[i]), fin.use_long_context)) \div 100
            /\ AgeOf(fout[i]) = 1 =>
                  fout[i].temporal_factor =
                      (DecayPow(1, fin.use_long_context)
                         * (IF fin.use_long_context THEN 130 ELSE 150)) \div 100
            /\ AgeOf(fout[i]) = DAY + HOUR =>
                  fout[i].temporal_factor =
                      (DecayPow(DAY + HOUR, fin.use_long_context) * 110) \div 100

\* a candidate aged 30 minutes and one aged 25 hours were scored
C13_Witness ==
    /\ fpc = "out"
    /\ fin.ageA = 1
    /\ fin.ageB = DAY + HOUR
    /\ Len(fout) = 2

(***************************************************************************)
(* SpecRecall: the engine of one user who stores a lunch and a meeting     *)
(* some days apart and asks for Alice without the graph                    *)
(***************************************************************************)
RecallDays == 10

RecallMessages == {"meeting with alice", "lunch with bob"}
RecallInstants == {1, RecallDays * DAY, RecallDays * DAY + 1, RecallDays * DAY + HOUR}
RecallLimits == {3, 5}

NextRecall ==
    \/ \E content \in RecallMessages : StoreMemory(content, "u1")
    \/ \E k \in RecallLimits, long_arg \in {"default", "yes", "no"} :
          Retrieve(<<"Alice">>, "u1", k, FALSE, long_arg, {})
    \/ \E t \in RecallInstants : Advance(t)

SpecRecall == Init /\ [][NextRecall]_vars

\* the user has the meeting with Alice, less than an hour old, and the lunch
\* with Bob, ten days old or older, and nothing else
AliceFreshBobOld ==
    /\ Len(store) = 2
    /\ \E i, j \in 1..2 :
          /\ store[i].content = "meeting with alice"
          /\ last.at - store[i].timestamp.at < HOUR
          /\ store[j].content = "lunch with bob"
          /\ last.at - store[j].timestamp.at >= RecallDays * DAY

SameCandidate(a, b) ==
    [a EXCEPT !.connections = NoConnections] = [b EXCEPT !.connections = NoConnections]

\* C15: get_proactive_context returns exactly the candidates its
\* retrieve_context call returned, in the same order and none dropped,
\* whatever the queries of the collaborators do; a candidate for which no
\* connections were found is returned as it was, without connections.
C15_EnrichmentDropsNothing ==
    last.op = "proactive" =>
        /\ Len(last.result) = Len(last.retrieved)
        /\ \A i \in 1..Len(last.result) :
              /\ SameCandidate(last.result[i], last.retrieved[i])
              /\ ~last.result[i].connections.present
                    => last.result[i] = last.retrieved[i]

\* get_proactive_context returned candidates of a computed retrieve_context
\* result
C15_Witness ==
    /\ last.op = "proactive"
    /\ ~last.hit
    /\ Len(last.retrieved) >= 2
    /\ last.result = last.retrieved

\* C16: every candidate get_proactive_context returns carries connection
\* data: find_memory_connections was called for it with limit 5 and its
\* result, at most 5 entries, is stored on the candidate.
C16_ConnectionsAttached ==
    last.op = "proactive" =>
        \A i \in 1..Len(last.result) :
            /\ last.result[i].connections.present
            /\ Len(last.result[i].connections.rows) <= ConnectionLimit

(***************************************************************************)
(* Timestamps of every form, and the combined score (SpecCombine)          *)
(***************************************************************************)
\* the candidate of the combined list that became fout.ranked[i]
CombinedOf(i) ==
    fout.combined[CHOOSE j \in 1..Len(fout.combined) :
                      MemId(fout.combined[j]) = MemId(fout.ranked[i])]

\* ISO-8601 timestamps: without a zone, with a trailing Z, with an offset
IsoForms == {"naive", "utc", "offset"}

\* C17 (as claimed): every candidate with a parseable ISO-8601 timestamp,
\* with a trailing Z or an explicit offset too, leaves
\* _apply_temporal_scoring with the score
\* original * context_weight + temporal_factor * (1 - context_weight).
C17_EveryIsoTimestampScored ==
    fpc = "out" =>
        \A i \in 1..Len(fout.ranked) :
            fout.ranked[i].timestamp.form \in IsoForms =>
                fout.ranked[i].score =
                    TemporalScore(CombinedOf(i).score,
                                  CombineNow - fout.ranked[i].timestamp.at,
                                  fin.use_long_context)

\* C18: a candidate whose timestamp is missing or is no timestamp leaves
\* _apply_temporal_scoring with exactly its combined score and no
\* temporal_factor; no candidate is dropped, and the candidates with a
\* timestamp the function can use are still scored.
C18_UnusableTimestampKeepsScore ==
    fpc = "out" =>
        /\ Len(fout.ranked) = Len(fout.combined)
        /\ \A j \in 1..Len(fout.combined) :
              \E i \in 1..Len(fout.ranked) :
                  MemId(fout.ranked[i]) = MemId(fout.combined[j])
        /\ \A i \in 1..Len(fout.ranked) :
              /\ fout.ranked[i].timestamp.form \in {"missing", "malformed"}
                    => /\ fout.ranked[i].score = CombinedOf(i).score
                       /\ fout.ranked[i].temporal_factor = NoFactor
                       /\ fout.ranked[i] = CombinedOf(i)
              /\ fout.ranked[i].timestamp.form = "naive"
                    => /\ fout.ranked[i].temporal_factor # NoFactor
                       /\ fout.ranked[i].score =
                             TemporalScore(CombinedOf(i).score,
                                           CombineNow - fout.ranked[i].timestamp.at,
                                           fin.use_long_context)

\* a candidate without a timestamp, one with a malformed one and a scored
\* one left the function together
C18_Witness ==
    /\ fpc = "out"
    /\ Len(fout.ranked) = 3
    /\ \E i, j, k \in 1..3 :
          /\ fout.ranked[i].timestamp.form = "missing"
          /\ fout.ranked[j].timestamp.form = "malformed"
          /\ fout.ranked[k].timestamp.form = "naive"
          /\ fout.ranked[k].temporal_factor # NoFactor

\* the sum over the graph hits of strength * graph_weight * match_count
RECURSIVE SumOfBoosts(_, _, _)
SumOfBoosts(graph_concepts, m, graph_weight) ==
    IF graph_concepts = <<>> THEN 0
    ELSE Head(graph_concepts).strength * graph_weight
            * ConceptMatches(Head(graph_concepts).concept, m) * 10000
         + SumOfBoosts(Tail(graph_concepts), m, graph_weight)

\* the score the claim gives a candidate, in 1e-8
ClaimedScore(m, use_long_context) ==
    LET semantic_weight == IF use_long_context THEN 60 ELSE 70
        temporal_weight == IF use_long_context THEN 25 ELSE 30
        graph_weight == IF use_long_context THEN 25 ELSE 20
        similar == {i \in 1..Len(fin.vector) : MemId(fin.vector[i]) = MemId(m)}
        recent == {i \in 1..Len(fin.recent) : MemId(fin.recent[i]) = MemId(m)}
    IN (IF similar = {} THEN 0
        ELSE fin.vector[CHOOSE i \in similar : TRUE].certainty * semantic_weight * 100)
       + (IF recent = {} THEN 0 ELSE temporal_weight * Micro)
       + SumOfBoosts(fin.graph, m, graph_weight)

\* C20 (as claimed): after _combine_and_rank_memories the score of a candidate
\* is semantic_weight * certainty if it is a similarity hit, plus
\* temporal_weight, added exactly once, if it is a recency hit, plus the sum
\* over the graph hits of strength * graph_weight * match_count.
C20_ScoreIsTheSumOfItsParts ==
    fpc = "out" =>
        \A i \in 1..Len(fout.combined) :
            fout.combined[i].score = ClaimedScore(fout.combined[i], fin.use_long_context)

(***************************************************************************)
(* Position weights of the concepts (SpecConcepts)                         *)
(***************************************************************************)
\* C19 (as claimed): the score of a concept is its frequency times the
\* position weight 1.0 - 0.3 * (index / total) of its FIRST occurrence, a
\* weight never below 0.7; of two concepts of the same frequency the one that
\* occurs first is never ranked after the other.
C19_FirstOccurrenceRanksFirst ==
    fpc = "out" =>
        LET concepts == ConceptWords(fin.query)
        IN /\ \A w \in Range(fout) :
                 /\ ConceptScore(concepts, w) =
                       (10 * Len(concepts) - 3 * (PlaceOf(concepts, w) - 1))
                          * Frequency(concepts, w)
                 /\ 10 * Len(concepts) - 3 * (PlaceOf(concepts, w) - 1)
                       >= 7 * Len(concepts)
           /\ \A a, b \in Range(fout) :
                 (/\ Frequency(concepts, a) = Frequency(concepts, b)
                  /\ PlaceOf(concepts, a) < PlaceOf(concepts, b))
                    => PlaceOf(fout, a) < PlaceOf(fout, b)

(***************************************************************************)
(* SpecIndexed: the engine constructed over an index that already holds    *)
(* three memories of the user, written a month ago or just now, with       *)
(* timestamps without a zone or with a trailing Z                          *)
(***************************************************************************)
IndexedDays == 30

IndexedNow == IndexedDays * DAY

IndexedItem(content, t, form) ==
    [content |-> content, user_id |-> "u1", timestamp |-> StampAs(t, form)]

\* the index: two meetings with Alice and a lunch with Bob, oldest first
IndexedStores ==
    {<<IndexedItem("meeting with alice", 0, f1),
       IndexedItem("meeting with alice", t2, "naive"),
       IndexedItem("lunch with bob", t3, f3)>> :
        f1 \in {"naive", "utc"}, t2 \in {1, IndexedNow - 3},
        t3 \in {2, IndexedNow - 1}, f3 \in {"naive", "utc"}}

IndexedLimits == {1, 2, 3}

InitIndexed ==
    /\ now = IndexedNow
    /\ store \in IndexedStores
    /\ cache = <<>>
    /\ last = NoCall
    /\ used = <<>>
    /\ session = [u \in SessionUsers |-> NoSession]
    /\ FuncIdle

NextIndexed ==
    \/ \E k \in IndexedLimits, include_graph \in BOOLEAN, long_arg \in {"yes", "no"} :
          Retrieve(<<"Alice">>, "u1", k, include_graph, long_arg, {})
    \/ \E max_memories \in IndexedLimits :
          Proactive("u1", <<"Alice">>, max_memories, "ok", {})

SpecIndexed == InitIndexed /\ [][NextIndexed]_vars

\* a list in non-increasing order of score
NonIncreasing(memories) ==
    \A i \in 1..(Len(memories) - 1) : memories[i].score >= memories[i + 1].score

\* C21: every list retrieve_context returns, computed or served from the
\* cache, is in non-increasing order of the final scores, whether or not some
\* candidates skipped temporal scoring, and it is the list the cache holds
\* under the key.
C21_ReturnedInFinalOrder ==
    last.op = "retrieve" =>
        /\ NonIncreasing(last.result)
        /\ CacheHas(cache, last.key) /\ CacheValue(cache, last.key) = last.result

\* a computed list in which the temporal pass put a candidate it skipped
\* between two it scored, or beside one
C21_Witness ==
    /\ last.op = "retrieve"
    /\ ~last.hit
    /\ Len(last.result) >= 2
    /\ \E i, j \in 1..Len(last.result) :
          /\ last.result[i].temporal_factor = NoFactor
          /\ last.result[j].temporal_factor # NoFactor

(***************************************************************************)
(* Calls without graph fan-out (Spec)                                      *)
(***************************************************************************)
\* the list retrieve_context computes from the two searches alone
WithoutGraph ==
    Take(ApplyTemporalScoring(
             CombineAndRankMemories(
                 SearchMemories(store, last.query, last.user_id,
                                EffectiveLimit(last.k, last.long) \div 2, "ok").rows,
                 GetRecentMemories(store, last.user_id,
                                   EffectiveLimit(last.k, last.long) \div 3, "ok").rows,
                 <<>>, last.long),
             last.at, last.long),
         EffectiveLimit(last.k, last.long))

\* C23: a retrieve_context call that computes its result with
\* include_graph=false, or for a query without concepts (empty, or stop words
\* only), makes no find_related_concepts call and raises nothing; it makes
\* the similarity and the recency query, and its scores have no graph part.
C23_NoFanOutWithoutConcepts ==
    (/\ last.op = "retrieve"
     /\ ~last.hit
     /\ (~last.include_graph \/ ExtractQueryConcepts(last.query) = <<>>))
        => /\ last.calls = 2
           /\ ~last.raised
           /\ last.result = WithoutGraph

\* both cases happened: the graph was not requested for a query with a
\* concept, and it was requested for a query of stop words
C23_Witness ==
    /\ last.op = "retrieve"
    /\ ~last.hit
    /\ last.result # <<>>
    /\ \/ ~last.include_graph /\ ExtractQueryConcepts(last.query) # <<>>
       \/ last.include_graph /\ last.query = <<"the">>

(***************************************************************************)
(* SpecArrival: the sums of _combine_and_rank_memories in floating point.  *)
(* A float is an integer number of units of 2^-FracBits with at most       *)
(* MantissaBits significant bits; every product and sum is rounded to the  *)
(* nearest float, ties to even, as Python's float does with 53 bits.       *)
(***************************************************************************)
FracBits == 10
MantissaBits == 6

RECURSIVE Pow2(_)
Pow2(n) == IF n = 0 THEN 1 ELSE 2 * Pow2(n - 1)

RECURSIVE BitLength(_)
BitLength(n) == IF n = 0 THEN 0 ELSE 1 + BitLength(n \div 2)

\* n rounded to MantissaBits significant bits, ties to even
RoundSig(n) ==
    IF BitLength(n) <= MantissaBits THEN n
    ELSE LET unit == Pow2(BitLength(n) - MantissaBits)
             q == n \div unit
             r == n % unit
         IN IF 2 * r > unit \/ (2 * r = unit /\ q % 2 = 1)
            THEN (q + 1) * unit ELSE q * unit

\* the float of a decimal literal given in percent (0.7 is Float(70))
Float(pct) == RoundSig((pct * Pow2(FracBits) + 50) \div 100)

\* a + b and a * b of two floats, rounded
FloatAdd(a, b) == RoundSig(a + b)
FloatMul(a, b) == RoundSig(a * b) \div Pow2(FracBits)

\* a float times a small int: concept_matches is an int
FloatTimes(a, n) == RoundSig(a * n)

\* memory['score'] = certainty * semantic_weight
VectorFloat(memories, use_long_context) ==
    [i \in 1..Len(memories) |->
        [memories[i] EXCEPT !.score =
            FloatMul(Float(memories[i].certainty \div 100),
                     Float(SemanticWeightPct(use_long_context)))]]

\* boost = strength * graph_weight * concept_matches
BoostFloat(concept_data, m, use_long_context) ==
    FloatTimes(FloatMul(Float(concept_data.strength),
                        Float(GraphWeightPct(use_long_context))),
               ConceptMatches(concept_data.concept, m))

\* for concept_data in graph_concepts: for every memory the concept matches,
\* combined[mem_id]['score'] += boost
RECURSIVE AddGraphFloat(_, _, _)
AddGraphFloat(combined, graph_concepts, use_long_context) ==
    IF graph_concepts = <<>> THEN combined
    ELSE AddGraphFloat(
             [i \in 1..Len(combined) |->
                 IF ConceptMatches(Head(graph_concepts).concept, combined[i]) > 0
                 THEN [combined[i] EXCEPT !.score =
                          FloatAdd(@, BoostFloat(Head(graph_concepts), combined[i],
                                                 use_long_context))]
                 ELSE combined[i]],
             Tail(graph_concepts), use_long_context)

\* _combine_and_rank_memories on similarity hits and graph hits
CombineFloat(vector_memories, graph_concepts, use_long_context) ==
    SortByScore(AddGraphFloat(VectorFloat(vector_memories, use_long_context),
                              graph_concepts, use_long_context))

ArrivalStrengths == {50, 55, 70, 85, 100}
ArrivalCertainties == {6500, 9500}

\* the similarity hits: a meeting and a lunch of the same instant
ArrivalVector(certaintyA, certaintyB) ==
    <<Candidate([content |-> "meeting with alice", timestamp |-> Stamp(0),
                 user_id |-> "u1"], certaintyA, 0, "vector"),
      Candidate([content |-> "lunch with bob", timestamp |-> Stamp(0),
                 user_id |-> "u1"], certaintyB, 0, "vector")>>

\* the hits of the lookups for three concepts
ArrivalHits(s1, s2, s3) ==
    <<[concept |-> "alice", strength |-> s1, distance |-> 1],
      [concept |-> "meeting", strength |-> s2, distance |-> 1],
      [concept |-> "bob", strength |-> s3, distance |-> 1]>>

\* the orders in which three hits can arrive
Permutations3 == {p \in [1..3 -> 1..3] : {p[1], p[2], p[3]} = 1..3}

InitArrival ==
    /\ EngineInit
    /\ fpc = "in"
    /\ fin \in [use_long_context : BOOLEAN,
                certaintyA : ArrivalCertainties, certaintyB : ArrivalCertainties,
                s1 : ArrivalStrengths, s2 : ArrivalStrengths, s3 : ArrivalStrengths,
                order : Permutations3]
    /\ fout = <<>>

\* the function on the hits as the lookups deliver them one after the other,
\* and on the same hits in another order of arrival
ApplyArrival ==
    /\ fpc = "in"
    /\ \E hits \in {ArrivalHits(fin.s1, fin.s2, fin.s3)} :
          fout' = [inorder |-> CombineFloat(
                                   ArrivalVector(fin.certaintyA, fin.certaintyB),
                                   hits, fin.use_long_context),
                   permuted |-> CombineFloat(
                                    ArrivalVector(fin.certaintyA, fin.certaintyB),
                                    [i \in 1..3 |-> hits[fin.order[i]]],
                                    fin.use_long_context)]
    /\ fpc' = "out"
    /\ UNCHANGED <<fin, engineVars>>

NextArrival == ApplyArrival

SpecArrival == InitArrival /\ [][NextArrival]_vars

\* C22 (as claimed): for every order in which the graph hits arrive, every
\* candidate gets the same combined score and the list has the same order.
C22_ArrivalOrderIrrelevant ==
    fpc = "out" => fout.permuted = fout.inorder

(***************************************************************************)
(* SpecConcurrent: two retrieve_context calls with the same arguments that *)
(* give way to each other wherever they await a collaborator, while        *)
(* memories are stored and time passes.  fpc, fin and fout hold the        *)
(* position, the local variables and the return value of each call.        *)
(***************************************************************************)
Calls == {1, 2}

ConcurrentQuery == <<"Alice">>
ConcurrentLimit == 4
ConcurrentKey == ContextKey("u1", ConcurrentQuery, ConcurrentLimit, TRUE, FALSE)

NoLocals == [vector_memories |-> <<>>, graph_concepts |-> <<>>,
             query_concepts |-> <<>>, recent_memories |-> <<>>]

NotReturned == [result |-> <<>>, hit |-> FALSE, at |-> 0]

InitConcurrent ==
    /\ EngineInit
    /\ fpc = [c \in Calls |-> "ready"]
    /\ fin = [c \in Calls |-> NoLocals]
    /\ fout = [c \in Calls |-> NotReturned]

\* the call starts: the cache is looked up; a hit returns the cached list, a
\* miss awaits search_memories
Begin(c) ==
    /\ fpc[c] = "ready"
    /\ IF CacheHas(cache, ConcurrentKey)
       THEN /\ fout' = [fout EXCEPT ![c] = [result |-> CacheValue(cache, ConcurrentKey),
                                            hit |-> TRUE, at |-> now]]
            /\ cache' = CacheTouch(cache, ConcurrentKey)
            /\ fpc' = [fpc EXCEPT ![c] = "done"]
       ELSE /\ fpc' = [fpc EXCEPT ![c] = "search"]
            /\ UNCHANGED <<fout, cache>>
    /\ used' = Use(cache', ConcurrentKey)
    /\ UNCHANGED <<now, store, last, session, fin>>

\* search_memories returns: the concepts are extracted and the first graph
\* lookup is awaited
Searched(c) ==
    /\ fpc[c] = "search"
    /\ fin' = [fin EXCEPT ![c].vector_memories =
                  SearchMemories(store, ConcurrentQuery, "u1",
                                 SimilarityLimit(ConcurrentLimit), "ok").rows,
                          ![c].query_concepts = QueryConcepts(ConcurrentQuery, TRUE)]
    /\ fpc' = [fpc EXCEPT ![c] = IF QueryConcepts(ConcurrentQuery, TRUE) = <<>>
                                 THEN "recent" ELSE "graph"]
    /\ UNCHANGED <<engineVars, fout>>

\* a find_related_concepts call returns: its hits are appended and the next
\* lookup, or get_recent_memories, is awaited
Related(c) ==
    /\ fpc[c] = "graph"
    /\ fin' = [fin EXCEPT ![c].graph_concepts =
                  @ \o FindRelatedConcepts(store, Head(fin[c].query_concepts),
                                           GRAPH_TRAVERSE_DEPTH, "ok").rows,
                          ![c].query_concepts = Tail(@)]
    /\ fpc' = [fpc EXCEPT ![c] = IF Tail(fin[c].query_concepts) = <<>>
                                 THEN "recent" ELSE "graph"]
    /\ UNCHANGED <<engineVars, fout>>

\* the list a call makes of its own three results at time t
OwnList(locals, recent_memories, t) ==
    Take(ApplyTemporalScoring(
             CombineAndRankMemories(locals.vector_memories, recent_memories,
                                    locals.graph_concepts, FALSE),
             t, FALSE),
         ConcurrentLimit)

\* get_recent_memories returns: the list is combined, scored, cut, written to
\* the cache and returned
Finish(c) ==
    /\ fpc[c] = "recent"
    /\ \E recent_memories \in {GetRecentMemories(store, "u1", RecencyLimit(ConcurrentLimit),
                                                 "ok").rows} :
          \E final_memories \in {OwnList(fin[c], recent_memories, now)} :
              /\ fin' = [fin EXCEPT ![c].recent_memories = recent_memories]
              /\ cache' = CachePut(cache, ConcurrentKey, final_memories)
              /\ fout' = [fout EXCEPT ![c] = [result |-> final_memories,
                                              hit |-> FALSE, at |-> now]]
    /\ used' = Use(cache', ConcurrentKey)
    /\ fpc' = [fpc EXCEPT ![c] = "done"]
    /\ UNCHANGED <<now, store, last, session>>

\* store_memory and the clock, with the calls where they are
StoreBetween ==
    /\ \E content \in Messages : StoreMemory(content, "u1")
    /\ UNCHANGED funcVars

NextConcurrent ==
    \/ \E c \in Calls : Begin(c)
    \/ \E c \in Calls : Searched(c)
    \/ \E c \in Calls : Related(c)
    \/ \E c \in Calls : Finish(c)
    \/ StoreBetween
    \/ \E t \in Instants : Advance(t)

SpecConcurrent == InitConcurrent /\ [][NextConcurrent]_vars

BothDone == \A c \in Calls : fpc[c] = "done"

\* C24: of two interleaved retrieve_context calls with the same arguments,
\* each returns either the list of a cache entry the other one wrote
\* completely, or the complete list it made of its own three results; when
\* the second one finishes, the cache holds exactly one entry for the key,
\* which is the complete list one of the two returned.
C24_NeverAMixedList ==
    /\ [](\A c \in Calls :
            fpc[c] = "done" =>
                IF fout[c].hit
                THEN \E d \in Calls \ {c} :
                        /\ fpc[d] = "done"
                        /\ ~fout[d].hit
                        /\ fout[c].result = fout[d].result
                ELSE fout[c].result = OwnList(fin[c], fin[c].recent_memories, fout[c].at))
    /\ [][(~BothDone /\ BothDone')
            => /\ Cardinality({i \in 1..Len(cache') : cache'[i].key = ConcurrentKey}) = 1
               /\ \E c \in Calls : CacheValue(cache', ConcurrentKey) = fout'[c].result]_vars

\* both calls computed a list, the lists differ, and the cache holds the
\* list of one of them
C24_Witness ==
    /\ BothDone
    /\ ~fout[1].hit
    /\ ~fout[2].hit
    /\ fout[1].result # <<>>
    /\ fout[1].result # fout[2].result
    /\ CacheHas(cache, ConcurrentKey)
    /\ CacheValue(cache, ConcurrentKey) = fout[1].result

(***************************************************************************)
(* SpecSubjects: the engine used by several subjects, one of them with the *)
(* empty id a webhook passes when the sender's id is missing               *)
(***************************************************************************)
SubjectIds == {"u1", "u:2", ""}

NextSubjects ==
    \/ \E content \in Messages, user_id \in SubjectIds : StoreMemory(content, user_id)
    \/ \E user_id \in SubjectIds, include_graph \in BOOLEAN :
          Retrieve(<<"Alice">>, user_id, 4, include_graph, "no", {})
    \/ \E user_id \in SubjectIds :
          Proactive(user_id, <<"Alice">>, 1, "ok", {})
    \/ \E t \in Instants : Advance(t)

SpecSubjects == Init /\ [][NextSubjects]_vars

\* C25 (as claimed): a call for a subject is never served a cache entry
\* written for another subject, and every candidate it returns is a memory of
\* that subject.
C25_OnlyTheSubjectsOwn ==
    last.op \in {"retrieve", "proactive"} =>
        /\ last.key[2] = last.user_id
        /\ \A i \in 1..Len(last.result) : last.result[i].user_id = last.user_id

(***************************************************************************)
(* SpecSession: one user stores more memories than the session list keeps, *)
(* hours or days apart, and retrieves in between                           *)
(***************************************************************************)
SessionStores == 5

SessionInstants == {1, DAY, 2 * DAY + 1, 4 * DAY + 1, 4 * DAY + 2}

NextSession ==
    \/ \E content \in Messages : StoreMemoryUpTo(content, "u1", SessionStores)
    \/ Retrieve(<<"Alice">>, "u1", 2, TRUE, "no", {})
    \/ Proactive("u1", <<>>, 1, "ok", {})
    \/ \E t \in SessionInstants : Advance(t)

SpecSession == Init /\ [][NextSession]_vars

\* the ids of the user's memories, newest first (the id of a memory is its
\* place in the store)
NewestFirst(user_id) ==
    LET mine == SelectSeq([i \in 1..Len(store) |-> [id |-> i, item |-> store[i]]],
                          LAMBDA r : r.item.user_id = user_id)
    IN [i \in 1..Len(mine) |-> mine[Len(mine) + 1 - i].id]

\* C26: a user's session list holds the user's most recent snapshots, newest
\* first, never more than the session limit; a completed store_memory puts
\* its snapshot at the head and trims the oldest; retrieve_context and
\* get_proactive_context leave every session list as it is.
C26_SessionListBoundedNewestFirst ==
    /\ [](\A u \in SessionUsers :
            LET rows == GetSessionContext(session, u, CONTEXT_MEMORY_LIMIT, now)
            IN /\ Len(rows) <= SessionLimit
               /\ Len(rows) <= Len(NewestFirst(u))
               /\ \A i \in 1..Len(rows) : rows[i].id = NewestFirst(u)[i])
    /\ [][(last'.op = "store" /\ Len(store') = Len(store) + 1)
            => LET u == last'.user_id
                   before == SessionRows(session, u, now)
                   after == SessionRows(session', u, now')
               IN /\ after # <<>>
                  /\ after[1].id = Len(store')
                  /\ Len(after) = Min(Len(before) + 1, SessionLimit)
                  /\ \A i \in 2..Len(after) : after[i] = before[i - 1]]_vars
    /\ [][CallStep => session' = session]_vars

\* the list was full, a memory was stored and the oldest snapshot is gone
C26_Witness ==
    /\ last.op = "store"
    /\ Len(store) = SessionLimit + 1
    /\ Len(SessionRows(session, "u1", now)) = SessionLimit
    /\ SessionRows(session, "u1", now)[SessionLimit].id = 2


(***************************************************************************)
(* What a miss leaves in the cache (SpecFaulty)                            *)
(***************************************************************************)
\* what retrieve_context would return now, from an empty cache and with every
\* collaborator answering
Recomputed(call) ==
    RetrieveContext(<<>>, store, now, call.query, call.user_id, call.k,
                    call.include_graph, IF call.long THEN "yes" ELSE "no",
                    AllOk).result

\* C27: every miss of retrieve_context that completes without an exception
\* writes the list it returns under its key, an empty list and a list computed
\* while a source failed included; an entry stays as it was written for as
\* long as the cache holds its key, and every call whose key the cache holds
\* is served that entry, whatever the sources would answer by then.
C27_EveryCompletedMissCached ==
    /\ [][(CallStep /\ ~last'.hit) =>
             (/\ CacheHas(cache', last'.key)
              /\ CacheValue(cache', last'.key) = last'.retrieved)]_vars
    /\ [][\A key \in CacheKeys(cache) \cap CacheKeys(cache') :
             CacheValue(cache', key) = CacheValue(cache, key)]_vars
    /\ [][(CallStep /\ CacheHas(cache, last'.key)) =>
             (/\ last'.hit
              /\ last'.retrieved = CacheValue(cache, last'.key))]_vars

\* a call served from the cache, at the instant the only memory was stored,
\* the list a miss computed while the similarity search failed: it holds the
\* memory, and is not the list the sources would give now
C27_Witness ==
    /\ last.op = "retrieve"
    /\ last.hit
    /\ now = 0
    /\ Len(store) = 1
    /\ last.result # <<>>
    /\ last.result # Recomputed(last)

\* C28 (as claimed): get_proactive_context(user_id, current_input,
\* max_memories = m) returns at most m candidates, for every positive m.
C28_AtMostMaxMemories ==
    last.op = "proactive" => Len(last.result) <= last.k


(***************************************************************************)
(* SpecShared: a user stores two memories whose contents differ after the  *)
(* first 50 characters, and retrieves                                      *)
(***************************************************************************)
SharedMessages ==
    {"quarterly budget review with alice and the finance team approved",
     "quarterly budget review with alice and the finance team rejected"}

NextShared ==
    \/ \E content \in SharedMessages : StoreMemory(content, "u1")
    \/ \E k \in {2, 3}, include_graph \in BOOLEAN, long_arg \in {"yes", "no"} :
          Retrieve(<<"Alice">>, "u1", k, include_graph, long_arg, {})
    \/ Proactive("u1", <<"Alice">>, 2, "ok", {})
    \/ \E t \in Instants : Advance(t)

SpecShared == Init /\ [][NextShared]_vars

\* the memories of the index that have the identity key of m
SameKey(items, m) == SelectSeq(items, LAMBDA x : MemId(x) = MemId(m))

\* C29: no list retrieve_context or get_proactive_context returns, computed or
\* served by the cache, holds two candidates of the same identity key
\* (timestamp and the first 50 characters of the content): a memory that both
\* searches deliver, or that one search delivers twice, and two memories that
\* share timestamp and prefix, are one candidate.
C29_OneCandidatePerIdentityKey ==
    IsCall => \A i, j \in 1..Len(last.result) :
                  MemId(last.result[i]) = MemId(last.result[j]) => i = j

\* a miss that asked the similarity search for two memories and the recency
\* search for one, when the index held two memories of the user with one
\* timestamp and different contents of one prefix: they came back as one
\* candidate, which carries the similarity and the recency score
C29_Witness ==
    /\ last.op = "retrieve"
    /\ ~last.hit
    /\ last.key[4] = 4
    /\ Len(store) = 2
    /\ store[1].content # store[2].content
    /\ Len(SameKey(store, store[1])) = 2
    /\ Len(last.result) = 1
    /\ last.result[1].source = "vector"
    /\ last.result[1].score > last.result[1].certainty * SemanticWeightPct(TRUE) * 100

\* the effective limit of the call last made: the k of its cache key
KeyLimit == last.key[4]

\* C30: with the effective limit k >= 1, retrieve_context asks the similarity
\* search for k div 2 and the recency search for k div 3 memories, so the list
\* it returns, to its caller or to get_proactive_context, has at most
\* k div 2 + k div 3 candidates, which is less than k; for k = 1 both caps
\* are 0 and the list is empty.
C30_FewerThanTheLimit ==
    (IsCall /\ KeyLimit >= 1) =>
        /\ Len(last.retrieved) <= KeyLimit \div 2 + KeyLimit \div 3
        /\ KeyLimit \div 2 + KeyLimit \div 3 < KeyLimit
        /\ KeyLimit = 1 => last.retrieved = <<>>

\* a miss with the effective limit 4 over an index of three memories that
\* returned 4 div 2 + 4 div 3 = 3 candidates, two of the similarity search and
\* one of the recency search
C30_Witness ==
    /\ last.op = "retrieve"
    /\ ~last.hit
    /\ KeyLimit = 4
    /\ Len(last.retrieved) = 3
    /\ Len(SelectSeq(last.retrieved, LAMBDA m : m.source = "vector")) = 2
    /\ Len(SelectSeq(last.retrieved, LAMBDA m : m.source = "temporal")) = 1
====
